---- MODULE Spec2Model ----
(***************************************************************************)
(* Model of the DTN transmission engine of cankocakulak/49F:               *)
(* SimpleNetworkSimulator.simulate_transmission                            *)
(* (src/src/network_simulator.py) together with the path enumeration it    *)
(* takes from networkx and the scoring of DTNRoutingAlgorithm              *)
(* (src/src/routing_algorithms.py).                                        *)
(*                                                                         *)
(* One run of simulate_transmission is a sequential program; its position  *)
(* is pc.  Every random.random() draw is a value of Draws, a set of        *)
(* representatives of [0, 1) in hundredths, chosen so that every           *)
(* comparison of the code has both outcomes whenever the rates allow both. *)
(***************************************************************************)
EXTENDS Integers, Sequences, FiniteSets, TLC

VARIABLES
    topology,            \* self.topology["links"], in file order
    source,              \* argument source
    destination,         \* argument destination
    error_rate,          \* config simulation.network.error_rate, in hundredths
    disruption_rate,     \* config simulation.network.disruption_rate, in hundredths
    pc,                  \* position of the run
    paths_with_delays,   \* candidate list, sorted by delay
    pidx,                \* 1-based position of the for loop: current_path = paths_with_delays[pidx]
    i,                   \* hop index on current_path
    disrupted_links,     \* set of <<current_node, next_node>>
    total_delay,
    retransmissions,
    successful_delivery,
    disruptions_handled,
    stored_bundles_count,
    recoveries,          \* len(recovery_times)
    retry_count,
    buffer,              \* self.buffer: node -> sequence of bundles
    delivered_idx,       \* position in the candidate list of the path whose last hop was committed (0: none)
    recovery_attempt_events, \* number of "RecoveryAttempt" events logged (line 163)
    run,                 \* number of the simulate_transmission call on this simulator
    node_buffer,         \* DTNNode.buffer
    max_buffer_size,     \* DTNNode.max_buffer_size
    node_log,            \* the calls made on the DTNNode, with their results
    max_paths,           \* argument max_paths of get_alternative_paths
    alt_paths            \* what get_alternative_paths returned

inputs == <<topology, source, destination, error_rate, disruption_rate>>
counters == <<total_delay, retransmissions, disruptions_handled, stored_bundles_count, recoveries>>
\* what simulate_transmission never touches
library == <<node_buffer, max_buffer_size, node_log, max_paths, alt_paths>>
vars == <<topology, source, destination, error_rate, disruption_rate, pc,
          paths_with_delays, pidx, i, disrupted_links, total_delay,
          retransmissions, successful_delivery, disruptions_handled,
          stored_bundles_count, recoveries, retry_count, buffer, delivered_idx,
          recovery_attempt_events, run, node_buffer, max_buffer_size, node_log,
          max_paths, alt_paths>>

----------------------------------------------------------------------------
(* Bounds of the model *)

\* A run is followed as long as it has counted no more than MaxDisruptions
\* disruptions.
MaxDisruptions == 2

\* simulate_transmission is called at most MaxRuns times on one simulator.
MaxRuns == 2

\* At most MaxNodeOps calls are made on the DTNNode, with bundles 1..MaxBundles.
MaxNodeOps == 4
MaxBundles == 2

\* largest max_paths asked of get_alternative_paths
MaxPaths == 3

----------------------------------------------------------------------------
(* Inputs *)

Range(s) == {s[k] : k \in 1..Len(s)}

Link(s, t, d, u) == [source |-> s, target |-> t, delay |-> d, unit |-> u]

\* spec.md section 8: A-B delay 10 "1 km", B-C delay 20 "2 M km"
Chain == << Link("A", "B", 10, "km"), Link("B", "C", 20, "M km") >>

\* two disjoint A-C routes; A-B-C has the lower delay, A-D-C the lower score
Diamond == << Link("A", "B", 10, "km"), Link("B", "C", 20, "M km"),
              Link("A", "D", 15, "km"), Link("D", "C", 20, "km") >>

\* two components: no route between them
Split == << Link("A", "B", 10, "km"), Link("C", "D", 20, "km") >>

Topologies == {Chain, Diamond, Split}

Rates == {0, 50, 100}

Draws == {0, 30, 60, 90}

\* the bundle of the run: every call makes a new one (lines 68-75)
bundle == run

----------------------------------------------------------------------------
(* The network graph and the candidate paths *)

\* G.nodes() after _build_network_graph
GraphNodes(links) == {l.source : l \in Range(links)} \cup {l.target : l \in Range(links)}

\* G[u]: the neighbours of u in the order the edges were added
RECURSIVE Neighbors(_, _)
Neighbors(links, u) ==
    IF links = << >> THEN << >>
    ELSE LET l == Head(links)
             rest == Neighbors(Tail(links), u)
         IN  IF l.source = u THEN <<l.target>> \o rest
             ELSE IF l.target = u THEN <<l.source>> \o rest
             ELSE rest

\* G[u][v]: the attributes of the edge between u and v
Edge(links, u, v) == CHOOSE l \in Range(links) : {l.source, l.target} = {u, v}

\* the depth-first enumeration of nx.all_simple_paths: children is what is
\* left of the neighbours of the last node of visited
RECURSIVE SimplePathsFrom(_, _, _, _)
SimplePathsFrom(links, visited, children, target) ==
    IF children = << >> THEN << >>
    ELSE LET child == Head(children)
             rest == SimplePathsFrom(links, visited, Tail(children), target)
         IN  IF child \in Range(visited) THEN rest
             ELSE IF child = target THEN <<Append(visited, child)>> \o rest
             ELSE SimplePathsFrom(links, Append(visited, child),
                                  Neighbors(links, child), target) \o rest

\* the enumeration with source and target taken for each other
all_simple_paths_swapped(links, s, t) ==
    SimplePathsFrom(links, <<t>>, Neighbors(links, t), s)

\* nx.all_simple_paths(G, s, t) for s # t
all_simple_paths(links, s, t) ==
    SimplePathsFrom(links, <<s>>, Neighbors(links, s), t)

\* sum of the delays of the links of a path
RECURSIVE PathDelay(_, _)
PathDelay(links, path) ==
    IF Len(path) < 2 THEN 0
    ELSE Edge(links, path[1], path[2]).delay + PathDelay(links, Tail(path))

\* list.sort(key = delay) is stable: x goes behind every element whose delay is
\* not larger
RECURSIVE InsertByDelay(_, _)
InsertByDelay(x, sorted) ==
    IF sorted = << >> THEN <<x>>
    ELSE IF Head(sorted).delay <= x.delay
         THEN <<Head(sorted)>> \o InsertByDelay(x, Tail(sorted))
         ELSE <<x>> \o sorted

RECURSIVE SortByDelay(_)
SortByDelay(ps) ==
    IF ps = << >> THEN << >>
    ELSE InsertByDelay(ps[Len(ps)], SortByDelay(SubSeq(ps, 1, Len(ps) - 1)))

\* paths_with_delays of simulate_transmission, from the enumerated paths
PathsWithDelays(links, all_paths) ==
    SortByDelay([k \in 1..Len(all_paths) |->
                    [path |-> all_paths[k], delay |-> PathDelay(links, all_paths[k])]])

----------------------------------------------------------------------------
(* Python floats: IEEE 754 binary64 with round-to-nearest-even.  A natural  *)
(* number is a sequence of limbs to the base 2^14, lowest first; a float is *)
(* [m, e] with m a natural of exactly 53 bits and the value m * 2^e.        *)

LimbBits == 14
Limb == 2^LimbBits
MantissaBits == 53

\* e, with v evaluated first: TLC evaluates an operand when it is first
\* used, and a long chain of pending operands makes the evaluation deep.
\* Intermediate values are handed on as operands for the same reason.
AfterValue(v, e) == IF v = v THEN e ELSE e

\* the limbs of the column sums cols, c carried in
RECURSIVE Carry(_, _)
Carry(cols, c) ==
    IF cols = << >>
    THEN IF c = 0 THEN << >> ELSE <<c % Limb>> \o Carry(<< >>, c \div Limb)
    ELSE <<(Head(cols) + c) % Limb>> \o Carry(Tail(cols), (Head(cols) + c) \div Limb)

RECURSIVE SumOf(_, _)
SumOf(f, S) ==
    IF S = {} THEN 0
    ELSE LET x == CHOOSE y \in S : TRUE IN f[x] + SumOf(f, S \ {x})

\* the natural n in limbs
NatLimbs(n) == Carry(<<n>>, 0)

\* a * b
NatMul(a, b) ==
    Carry([k \in 1..(Len(a) + Len(b) - 1) |->
              SumOf([j \in 1..Len(a) |->
                        IF k + 1 - j \in 1..Len(b) THEN a[j] * b[k + 1 - j] ELSE 0],
                    1..Len(a))],
          0)

\* a >= b for naturals of the same number of limbs
RECURSIVE NatGeq(_, _)
NatGeq(a, b) ==
    IF a = << >> THEN TRUE
    ELSE IF a[Len(a)] # b[Len(b)] THEN a[Len(a)] > b[Len(b)]
    ELSE NatGeq(SubSeq(a, 1, Len(a) - 1), SubSeq(b, 1, Len(b) - 1))

\* a - b for a >= b of the same number of limbs, borrow taken in
RECURSIVE NatSub(_, _, _)
NatSub(a, b, borrow) ==
    IF a = << >> THEN << >>
    ELSE LET d == Head(a) - Head(b) - borrow
         IN  IF d < 0 THEN <<d + Limb>> \o NatSub(Tail(a), Tail(b), 1)
             ELSE <<d>> \o NatSub(Tail(a), Tail(b), 0)

\* 2 * a + bit in as many limbs as a has
NatDouble(a, bit) ==
    SubSeq(Carry([k \in 1..Len(a) |-> 2 * a[k] + (IF k = 1 THEN bit ELSE 0)], 0),
           1, Len(a))

\* limb k of n, 0 above its last limb
LimbAt(n, k) == IF k \in 1..Len(n) THEN n[k] ELSE 0

\* the number of bits of n > 0
NatBitLength(n) ==
    LET top == CHOOSE k \in 1..Len(n) : n[k] # 0 /\ \A j \in (k + 1)..Len(n) : n[j] = 0
    IN  LimbBits * (top - 1)
          + (CHOOSE b \in 1..LimbBits : 2^(b - 1) <= n[top] /\ n[top] < 2^b)

\* bit k of n, the lowest being bit 1
BitAt(n, k) == (LimbAt(n, ((k - 1) \div LimbBits) + 1) \div 2^((k - 1) % LimbBits)) % 2

\* the lowest c bits of n are all 0
LowBitsZero(n, c) ==
    /\ \A j \in 1..(c \div LimbBits) : LimbAt(n, j) = 0
    /\ LimbAt(n, (c \div LimbBits) + 1) % 2^(c % LimbBits) = 0

\* n \div 2^s in four limbs
ShiftRight(n, s) ==
    LET a == s \div LimbBits
        b == s % LimbBits
        limb(j) == (LimbAt(n, j + a) \div 2^b) + (LimbAt(n, j + a + 1) % 2^b) * 2^(LimbBits - b)
    IN  <<limb(1), limb(2), limb(3), limb(4)>>

\* n without its lowest s bits is q: the value goes up when the highest bit
\* cut off is 1 and either something lies below it or q is odd (ties go to
\* the even mantissa)
RoundsUp(n, s, sticky, q) ==
    /\ s >= 1
    /\ BitAt(n, s) = 1
    /\ \/ sticky
       \/ s >= 2 /\ ~LowBitsZero(n, s - 1)
       \/ q[1] % 2 = 1

\* q, or q + 1
RoundedMantissa(q, up) ==
    IF up THEN Carry(<<q[1] + 1, q[2], q[3], q[4]>>, 0) ELSE q

\* the float r * 2^e; r is of 53 bits, or 2^53 when the rounding carried over
Normalised(r, e) ==
    IF r[4] = 2^(MantissaBits - 3 * LimbBits)
    THEN [m |-> <<0, 0, 0, 2^(MantissaBits - 1 - 3 * LimbBits)>>, e |-> e + 1]
    ELSE [m |-> <<r[1], r[2], r[3], r[4]>>, e |-> e]

RoundShifted(n, e, sticky, s, q) ==
    Normalised(RoundedMantissa(q, RoundsUp(n, s, sticky, q)), e + s)

RoundBy(n, e, sticky, s) == RoundShifted(n, e, sticky, s, ShiftRight(n, s))

\* the float nearest to n * 2^e, for n of at least 53 bits; sticky says that
\* the exact value lies above n * 2^e
RoundToFloat(n, e, sticky) == RoundBy(n, e, sticky, NatBitLength(n) - MantissaBits)

\* x * y
FloatMul(x, y) == RoundToFloat(NatMul(x.m, y.m), x.e + y.e, FALSE)

\* one step of the long division by m: a 0 of the dividend is brought down
\* and the next bit of the quotient is found
DivideStep(m, st) ==
    LET r2 == NatDouble(st.rem, 0)
    IN  IF NatGeq(r2, m)
        THEN [rem |-> NatSub(r2, m, 0), quot |-> NatDouble(st.quot, 1)]
        ELSE [rem |-> r2, quot |-> NatDouble(st.quot, 0)]

\* n steps, done as two halves one after the other so that the evaluation
\* stays shallow
RECURSIVE DivideSteps(_, _, _)
DivideSteps(n, m, st) ==
    IF n = 0 THEN st
    ELSE IF n = 1 THEN DivideStep(m, st)
    ELSE LET half == DivideSteps(n \div 2, m, st)
         IN  AfterValue(half, DivideSteps(n - (n \div 2), m, half))

\* 1 / x: 2^(2 * 53 + 1) divided by the mantissa, the leading 1 of the
\* dividend already brought down, and the quotient rounded
RoundedQuotient(x, d) ==
    RoundToFloat(d.quot, 0 - x.e - (2 * MantissaBits + 1), \E k \in 1..4 : d.rem[k] # 0)

FloatRecip(x) ==
    AfterValue(x, RoundedQuotient(x, DivideSteps(2 * MantissaBits + 1, x.m,
                               [rem |-> <<1, 0, 0, 0>>, quot |-> <<0, 0, 0, 0>>])))

\* n * x for an int n > 0
IntTimesFloat(n, x) == RoundToFloat(NatMul(NatLimbs(n), x.m), x.e, FALSE)

\* x < y for floats above zero
FloatLess(x, y) ==
    \/ x.e < y.e
    \/ x.e = y.e /\ x.m # y.m /\ NatGeq(y.m, x.m)

\* the floats 1.0, 0.9 and 0.7
FloatOne == [m |-> <<0, 0, 0, 1024>>, e |-> -52]
FloatNear == [m |-> <<3277, 13107, 3276, 1843>>, e |-> -53]
FloatDeep == [m |-> <<9830, 6553, 9830, 1433>>, e |-> -53]

----------------------------------------------------------------------------
(* The score of DTNRoutingAlgorithm.get_alternative_paths *)

\* 'M km' in distance
IsDeepSpace(l) == l.unit = "M km"

\* lines 46-52: reliability = 1.0, then *= 0.7 or *= 0.9 hop by hop from the
\* first hop on, r being the product so far and k the next hop
RECURSIVE ReliabilityFrom(_, _, _, _)
ReliabilityFrom(links, path, k, r) ==
    IF k >= Len(path) THEN r
    ELSE AfterValue(r, ReliabilityFrom(links, path, k + 1,
                           FloatMul(r, IF IsDeepSpace(Edge(links, path[k], path[k + 1]))
                                       THEN FloatDeep ELSE FloatNear)))

Reliability(links, path) == ReliabilityFrom(links, path, 1, FloatOne)

\* a key above zero
KeyOf(f) == [zero |-> FALSE, m |-> f.m, e |-> f.e]

\* delay * inverse
TimesInverse(delay, inverse) ==
    AfterValue(inverse, KeyOf(IntTimesFloat(delay, inverse)))

\* line 56: the sort key x[1] * (1 / x[2]); zero for a delay of 0
ScoreKey(links, path) ==
    IF PathDelay(links, path) = 0
    THEN [zero |-> TRUE, m |-> <<0, 0, 0, 0>>, e |-> 0]
    ELSE TimesInverse(PathDelay(links, path), FloatRecip(Reliability(links, path)))

\* key a < key b
KeyLess(a, b) ==
    IF a.zero \/ b.zero THEN a.zero /\ ~b.zero
    ELSE FloatLess(a, b)

\* the key of p is smaller than the key of q
ScoreLess(links, p, q) == KeyLess(ScoreKey(links, p), ScoreKey(links, q))

----------------------------------------------------------------------------
(* self.buffer *)

\* self.buffer.get(node, [])
BufferGet(buf, node) == IF node \in DOMAIN buf THEN buf[node] ELSE << >>

\* self.buffer[node] = value
BufferSet(buf, node, value) ==
    [n \in DOMAIN buf \cup {node} |-> IF n = node THEN value ELSE buf[n]]

\* lines 141-145: the bundle is appended unless the node's list has it
StoreBundle(buf, node, b) ==
    IF b \in Range(BufferGet(buf, node)) THEN buf
    ELSE BufferSet(buf, node, Append(BufferGet(buf, node), b))

\* list.remove(b): the first occurrence is taken out
ListRemove(list, b) ==
    IF b \notin Range(list) THEN list
    ELSE LET first == CHOOSE k \in 1..Len(list) :
                          list[k] = b /\ \A j \in 1..(k - 1) : list[j] # b
         IN  SubSeq(list, 1, first - 1) \o SubSeq(list, first + 1, Len(list))

\* lines 179-180
RemoveBundle(buf, node, b) ==
    IF node \in DOMAIN buf THEN BufferSet(buf, node, ListRemove(buf[node], b)) ELSE buf

\* the nodes whose buffer holds the bundle
Holders(buf, b) == {n \in DOMAIN buf : b \in Range(buf[n])}

----------------------------------------------------------------------------
(* The draws *)

\* random.random() < rate
Below(r, rate) == r < rate

\* line 211: 1.0 if "km" in distance else 1.5, in tenths ("M km" contains "km")
distance_factor(l) == IF l.unit \in {"km", "M km"} THEN 10 ELSE 15

\* line 213: random.random() < base_error_rate * distance_factor
CommitDisrupted(r, l) == r * 10 < error_rate * distance_factor(l)

\* line 174: random.random() > (error_rate + disruption_rate) / 2
Recovers(r) == 2 * r > error_rate + disruption_rate

max_retries == 3

----------------------------------------------------------------------------
(* The run *)

current_path == paths_with_delays[pidx].path
current_node == current_path[i + 1]
next_node == current_path[i + 2]
current_link == Edge(topology, current_node, next_node)

\* the pair taken from the first node of the path and the next node
hop_pair_from_source == <<current_path[1], next_node>>

\* the pair kept in disrupted_links, lines 137, 181 and 214
hop_pair == <<current_node, next_node>>

\* DTNNode.__init__, line 31
DefaultBufferSize == 1024 * 1024

\* line 35: a bundle is taken to fill 1024 bytes of max_buffer_size
BundleSlot == 1024

\* the simulator at the start of call number r, with self.buffer as the
\* earlier calls left it; everything else is local to the call
SimulatorAt(size, r, buf) ==
    /\ recovery_attempt_events = 0
    /\ run = r
    /\ node_buffer = << >>
    /\ max_buffer_size = size
    /\ node_log = << >>
    /\ max_paths = 0
    /\ alt_paths = << >>
    /\ topology \in Topologies
    /\ source \in GraphNodes(topology)
    /\ destination \in GraphNodes(topology)
    /\ error_rate \in Rates
    /\ disruption_rate \in Rates
    /\ pc = "start"
    /\ paths_with_delays = << >>
    /\ pidx = 0
    /\ i = 0
    /\ disrupted_links = {}
    /\ total_delay = 0
    /\ retransmissions = 0
    /\ successful_delivery = FALSE
    /\ disruptions_handled = 0
    /\ stored_bundles_count = 0
    /\ recoveries = 0
    /\ retry_count = 0
    /\ buffer = buf
    /\ delivered_idx = 0

\* the first call on a new simulator: self.buffer = {}, line 19
SimulatorInit(size) == SimulatorAt(size, 1, [n \in {} |-> << >>])

Init == SimulatorInit(DefaultBufferSize)

\* lines 77-102: the candidates are enumerated and sorted by delay.  For
\* source = destination networkx before 3.2 yields no path and later versions
\* yield the single-node path.
FindPaths ==
    /\ pc = "start"
    /\ \E all_paths \in (IF source = destination
                          THEN {<< >>, << <<source>> >>}
                          ELSE {all_simple_paths(topology, source, destination)}) :
          paths_with_delays' = PathsWithDelays(topology, all_paths)
    /\ pc' = "while"
    /\ UNCHANGED <<library, run, inputs, counters, recovery_attempt_events, pidx, i, disrupted_links, successful_delivery,
                   retry_count, buffer, delivered_idx>>

\* line 104: while not successful_delivery; the run returns its record
\* (lines 264-284) only when the test fails, otherwise the for loop starts
\* over at the first candidate
WhileTest ==
    /\ pc = "while"
    /\ IF successful_delivery
       THEN pc' = "done" /\ pidx' = pidx
       ELSE pc' = "for" /\ pidx' = 0
    /\ UNCHANGED <<library, run, inputs, counters, recovery_attempt_events, paths_with_delays, i, disrupted_links,
                   successful_delivery, retry_count, buffer, delivered_idx>>

\* lines 105-116: the for loop binds the next candidate to current_path, then
\* tests successful_delivery; a candidate without a hop leaves the inner loop
\* at once
ForNext ==
    /\ pc = "for"
    /\ pidx < Len(paths_with_delays)
    /\ pidx' = pidx + 1
    /\ IF successful_delivery
       THEN pc' = "while" /\ i' = i
       ELSE /\ i' = 0
            /\ pc' = IF Len(paths_with_delays[pidx + 1].path) > 1 THEN "check" ELSE "for"
    /\ UNCHANGED <<library, run, inputs, counters, recovery_attempt_events, paths_with_delays, disrupted_links,
                   successful_delivery, retry_count, buffer, delivered_idx>>

\* line 105: the candidates are used up and the for loop ends
ForEnd ==
    /\ pc = "for"
    /\ pidx = Len(paths_with_delays)
    /\ pc' = "while"
    /\ UNCHANGED <<library, run, inputs, counters, recovery_attempt_events, paths_with_delays, pidx, i, disrupted_links,
                   successful_delivery, retry_count, buffer, delivered_idx>>

\* lines 133-136: neither draw is below its rate
HopCheckClean ==
    /\ pc = "check"
    /\ \E r1, r2 \in Draws : ~(Below(r1, error_rate) \/ Below(r2, disruption_rate))
    /\ pc' = "transmit"
    /\ UNCHANGED <<library, run, inputs, counters, recovery_attempt_events, paths_with_delays, pidx, i, disrupted_links,
                   successful_delivery, retry_count, buffer, delivered_idx>>

\* the disrupted hop stored and retried without being counted
HopCheckDisrupted_Uncounted ==
    /\ pc = "check"
    /\ \E r1, r2 \in Draws : Below(r1, error_rate) \/ Below(r2, disruption_rate)
    /\ disrupted_links' = disrupted_links \cup {hop_pair}
    /\ disruptions_handled' = disruptions_handled
    /\ buffer' = StoreBundle(buffer, current_node, bundle)
    /\ stored_bundles_count' = IF bundle \in Range(BufferGet(buffer, current_node))
                               THEN stored_bundles_count
                               ELSE stored_bundles_count + 1
    /\ retry_count' = 0
    /\ pc' = "recover"
    /\ UNCHANGED <<library, run, inputs, paths_with_delays, pidx, i, total_delay, retransmissions,
                   successful_delivery, recoveries, delivered_idx, recovery_attempt_events>>

\* lines 133-160: the hop is found disrupted; the bundle is stored at the
\* current node and the recovery loop is entered
HopCheckDisrupted ==
    /\ pc = "check"
    /\ \E r1, r2 \in Draws : Below(r1, error_rate) \/ Below(r2, disruption_rate)
    /\ disrupted_links' = disrupted_links \cup {hop_pair}
    /\ disruptions_handled' = disruptions_handled + 1
    /\ buffer' = StoreBundle(buffer, current_node, bundle)
    /\ stored_bundles_count' = IF bundle \in Range(BufferGet(buffer, current_node))
                               THEN stored_bundles_count
                               ELSE stored_bundles_count + 1
    /\ retry_count' = 0
    /\ pc' = "recover"
    /\ UNCHANGED <<library, run, inputs, paths_with_delays, pidx, i, total_delay, retransmissions,
                   successful_delivery, recoveries, delivered_idx, recovery_attempt_events>>

\* lines 162-171: retry_count < max_retries; the attempt is logged and the
\* engine waits (time.sleep) before it draws
RecoveryAttempt ==
    /\ pc = "recover"
    /\ recovery_attempt_events' = recovery_attempt_events + 1
    /\ pc' = "attempt"
    /\ UNCHANGED <<library, run, inputs, counters, paths_with_delays, pidx, i, disrupted_links,
                   successful_delivery, retry_count, buffer, delivered_idx>>

\* lines 174-190: the link recovers; list.remove raises ValueError when the
\* bundle is not in the list
RecoverySuccess ==
    /\ pc = "attempt"
    /\ \E r \in Draws : Recovers(r)
    /\ recoveries' = recoveries + 1
    /\ IF current_node \in DOMAIN buffer /\ bundle \notin Range(buffer[current_node])
       THEN pc' = "raised" /\ UNCHANGED <<buffer, disrupted_links>>
       ELSE /\ buffer' = RemoveBundle(buffer, current_node, bundle)
            /\ disrupted_links' = disrupted_links \ {hop_pair}
            /\ pc' = "transmit"
    /\ UNCHANGED <<library, run, inputs, recovery_attempt_events, paths_with_delays, pidx, i, total_delay, retransmissions,
                   successful_delivery, disruptions_handled, stored_bundles_count,
                   retry_count, delivered_idx>>

\* the recovery loop with one attempt too many (<= for <)
RecoveryFailure_OneMore ==
    /\ pc = "attempt"
    /\ \E r \in Draws : ~Recovers(r)
    /\ retry_count' = retry_count + 1
    /\ retransmissions' = retransmissions + 1
    /\ pc' = IF retry_count + 1 > max_retries THEN "for" ELSE "recover"
    /\ UNCHANGED <<library, run, inputs, recovery_attempt_events, paths_with_delays, pidx, i, disrupted_links, total_delay,
                   successful_delivery, disruptions_handled, stored_bundles_count,
                   recoveries, buffer, delivered_idx>>

\* lines 174, 192-203: the draw says the link does not recover; after max_retries failures
\* the inner loop is left and the for loop goes on
RecoveryFailure ==
    /\ pc = "attempt"
    /\ \E r \in Draws : ~Recovers(r)
    /\ retry_count' = retry_count + 1
    /\ retransmissions' = retransmissions + 1
    /\ pc' = IF retry_count + 1 = max_retries THEN "for" ELSE "recover"
    /\ UNCHANGED <<library, run, inputs, recovery_attempt_events, paths_with_delays, pidx, i, disrupted_links, total_delay,
                   successful_delivery, disruptions_handled, stored_bundles_count,
                   recoveries, buffer, delivered_idx>>

\* lines 206-223: the distance-based draw fails the hop; the hop is tried again
TransmitDisrupted ==
    /\ pc = "transmit"
    /\ \E r \in Draws : CommitDisrupted(r, current_link)
    /\ disrupted_links' = disrupted_links \cup {hop_pair}
    /\ pc' = "check"
    /\ UNCHANGED <<library, run, inputs, counters, recovery_attempt_events, paths_with_delays, pidx, i, successful_delivery,
                   retry_count, buffer, delivered_idx>>

\* lines 206-213, 225-257: the draw lets the hop through; its delay is
\* added, the transmission is logged and shown, and the engine waits
Commit ==
    /\ pc = "transmit"
    /\ \E r \in Draws : ~CommitDisrupted(r, current_link)
    /\ total_delay' = total_delay + current_link.delay
    /\ pc' = "sent"
    /\ UNCHANGED <<library, run, inputs, paths_with_delays, pidx, i, disrupted_links,
                   retransmissions, disruptions_handled, stored_bundles_count, recoveries,
                   successful_delivery, retry_count, buffer, delivered_idx,
                   recovery_attempt_events>>

\* lines 258-262: i += 1; at the last node the bundle is delivered and the
\* inner loop is left
Advance ==
    /\ pc = "sent"
    /\ i' = i + 1
    /\ IF i + 1 = Len(current_path) - 1
       THEN successful_delivery' = TRUE /\ delivered_idx' = pidx /\ pc' = "for"
       ELSE UNCHANGED <<successful_delivery, delivered_idx>> /\ pc' = "check"
    /\ UNCHANGED <<library, run, inputs, counters, paths_with_delays, pidx, disrupted_links,
                   retry_count, buffer, recovery_attempt_events>>

\* the run is followed no further once it has counted more disruptions than
\* MaxDisruptions; nothing in the code stops it there
WithinBounds == disruptions_handled <= MaxDisruptions

\* one step of simulate_transmission, in a run that is still followed
Next ==
    \/ WithinBounds /\ FindPaths
    \/ WithinBounds /\ WhileTest
    \/ WithinBounds /\ ForNext
    \/ WithinBounds /\ ForEnd
    \/ WithinBounds /\ HopCheckClean
    \/ WithinBounds /\ HopCheckDisrupted
    \/ WithinBounds /\ RecoveryAttempt
    \/ WithinBounds /\ RecoverySuccess
    \/ WithinBounds /\ RecoveryFailure
    \/ WithinBounds /\ TransmitDisrupted
    \/ WithinBounds /\ Commit
    \/ WithinBounds /\ Advance

Spec == Init /\ [][Next]_vars

----------------------------------------------------------------------------
(* Several calls on one simulator: self.buffer is made in __init__ (line   *)
(* 19) and lives on, everything else is local to the call (lines 68-102).  *)

NewRun ==
    /\ pc = "done"
    /\ run < MaxRuns
    /\ run' = run + 1
    /\ source' \in GraphNodes(topology)
    /\ destination' \in GraphNodes(topology)
    /\ pc' = "start"
    /\ paths_with_delays' = << >>
    /\ pidx' = 0
    /\ i' = 0
    /\ disrupted_links' = {}
    /\ total_delay' = 0
    /\ retransmissions' = 0
    /\ successful_delivery' = FALSE
    /\ disruptions_handled' = 0
    /\ stored_bundles_count' = 0
    /\ recoveries' = 0
    /\ retry_count' = 0
    /\ delivered_idx' = 0
    /\ recovery_attempt_events' = 0
    /\ UNCHANGED <<library, topology, error_rate, disruption_rate, buffer>>

RunsNext == Next \/ NewRun

RunsInit == SimulatorInit(DefaultBufferSize)

RunsSpec == RunsInit /\ [][RunsNext]_vars

\* as many earlier calls as a node of the default size takes bundles
EarlierRuns == DefaultBufferSize \div BundleSlot

\* a call over the link can leave its bundle at the link's first node and
\* return: the hop check is disrupted (lines 133-136), the recovery draws
\* fail (line 174), and on the restarted pass the hop check is clean and the
\* draw of line 213 lets the hop through
LeavesBundleBehind(l) ==
    /\ \E r1, r2 \in Draws : Below(r1, error_rate) \/ Below(r2, disruption_rate)
    /\ \E r \in Draws : ~Recovers(r)
    /\ \E r1, r2 \in Draws : ~(Below(r1, error_rate) \/ Below(r2, disruption_rate))
    /\ \E r \in Draws : ~CommitDisrupted(r, l)

\* a call on a simulator that has been in use: each of EarlierRuns earlier
\* calls from A to B was disrupted at A, used up its retries there and left
\* its bundle in self.buffer['A'] (lines 141-144 store, line 203 leaves the
\* hop, nothing removes the bundle).  The rates are those of the simulator,
\* the same in every call, so they are rates at which a call does that.
LongUseInit ==
    /\ SimulatorAt(DefaultBufferSize, EarlierRuns + 1,
                   [n \in {"A"} |-> [k \in 1..EarlierRuns |-> k]])
    /\ LeavesBundleBehind(Edge(topology, "A", "B"))

LongUseSpec == LongUseInit /\ [][Next]_vars

----------------------------------------------------------------------------
(* DTNNode, src/src/dtn_core.py, on its own *)

\* everything simulate_transmission works on
simulation == <<inputs, pc, paths_with_delays, pidx, i, disrupted_links, counters,
                successful_delivery, retry_count, buffer, delivered_idx,
                recovery_attempt_events, run>>

\* the locals of simulate_transmission before any call
NoRun ==
    /\ paths_with_delays = << >> /\ pidx = 0 /\ i = 0
    /\ disrupted_links = {}
    /\ total_delay = 0 /\ retransmissions = 0 /\ disruptions_handled = 0
    /\ stored_bundles_count = 0 /\ recoveries = 0
    /\ successful_delivery = FALSE /\ retry_count = 0
    /\ buffer = [n \in {} |-> << >>]
    /\ delivered_idx = 0 /\ recovery_attempt_events = 0 /\ run = 1

\* no call of simulate_transmission is under way
Idle ==
    /\ topology = Chain /\ source = "A" /\ destination = "C"
    /\ error_rate = 0 /\ disruption_rate = 0
    /\ pc = "idle"
    /\ NoRun

\* forward_bundle returns None, line 44
None == 0

NodeBundles == 1..MaxBundles

\* values of the attribute max_buffer_size: none, one and two bundles, and
\* the default of line 31
NodeBufferSizes == {0, BundleSlot, 2 * BundleSlot, DefaultBufferSize}

NodeInit ==
    /\ Idle
    /\ node_buffer = << >>
    /\ max_buffer_size \in NodeBufferSizes
    /\ node_log = << >>
    /\ max_paths = 0
    /\ alt_paths = << >>

LogEntry(op, b, ok, before, after) ==
    [op |-> op, bundle |-> b, accepted |-> ok, size_before |-> before, size_after |-> after]

\* lines 33-38
store_bundle ==
    /\ pc = "idle"
    /\ Len(node_log) < MaxNodeOps
    /\ \E b \in NodeBundles :
          LET ok == Len(node_buffer) * BundleSlot < max_buffer_size
              after == IF ok THEN Append(node_buffer, b) ELSE node_buffer
          IN  /\ node_buffer' = after
              /\ node_log' = Append(node_log,
                     LogEntry("store", b, ok, Len(node_buffer), Len(after)))
    /\ UNCHANGED <<simulation, max_buffer_size, max_paths, alt_paths>>

\* forward_bundle handing out the first bundle without taking it out
\* (self.buffer[0] for self.buffer.pop(0))
forward_bundle_peek ==
    /\ pc = "idle"
    /\ Len(node_log) < MaxNodeOps
    /\ node_buffer' = node_buffer
    /\ node_log' = Append(node_log,
           IF node_buffer # << >>
           THEN LogEntry("forward", Head(node_buffer), TRUE, Len(node_buffer), Len(node_buffer))
           ELSE LogEntry("forward", None, FALSE, 0, 0))
    /\ UNCHANGED <<simulation, max_buffer_size, max_paths, alt_paths>>

\* lines 40-44
forward_bundle ==
    /\ pc = "idle"
    /\ Len(node_log) < MaxNodeOps
    /\ node_buffer' = IF node_buffer # << >> THEN Tail(node_buffer) ELSE node_buffer
    /\ node_log' = Append(node_log,
           IF node_buffer # << >>
           THEN LogEntry("forward", Head(node_buffer), TRUE, Len(node_buffer), Len(node_buffer) - 1)
           ELSE LogEntry("forward", None, FALSE, 0, 0))
    /\ UNCHANGED <<simulation, max_buffer_size, max_paths, alt_paths>>

NodeNext == store_bundle \/ forward_bundle

NodeSpec == NodeInit /\ [][NodeNext]_vars

----------------------------------------------------------------------------
(* DTNRoutingAlgorithm.get_alternative_paths, src/src/routing_algorithms.py *)

\* the sort with the delay alone as its key
RECURSIVE InsertByScore_DelayOnly(_, _, _)
InsertByScore_DelayOnly(links, x, sorted) ==
    IF sorted = << >> THEN <<x>>
    ELSE IF Head(sorted).delay <= x.delay
         THEN <<Head(sorted)>> \o InsertByScore_DelayOnly(links, x, Tail(sorted))
         ELSE <<x>> \o sorted

\* line 56: paths.sort(key = ...), stable: x goes behind every element whose
\* key is not larger; the key of an element is computed once
RECURSIVE InsertByScore(_, _, _)
InsertByScore(links, x, sorted) ==
    IF sorted = << >> THEN <<x>>
    ELSE IF ~KeyLess(x.key, Head(sorted).key)
         THEN <<Head(sorted)>> \o InsertByScore(links, x, Tail(sorted))
         ELSE <<x>> \o sorted

RECURSIVE SortByScore(_, _)
SortByScore(links, ps) ==
    IF ps = << >> THEN << >>
    ELSE InsertByScore(links, ps[Len(ps)], SortByScore(links, SubSeq(ps, 1, Len(ps) - 1)))

\* line 64: paths[:max_paths]; a negative max_paths counts from the end
FirstPaths(ps, k) ==
    SubSeq(ps, 1, IF k < 0 THEN (IF Len(ps) + k > 0 THEN Len(ps) + k ELSE 0)
                  ELSE IF k < Len(ps) THEN k ELSE Len(ps))

\* lines 39-54: (path, total_delay, reliability) for every path, with the
\* key that line 56 computes from them
ScoredPaths(links, all_paths) ==
    SubSeq([j \in 1..Len(all_paths) |->
               [path |-> all_paths[j],
                delay |-> PathDelay(links, all_paths[j]),
                key |-> ScoreKey(links, all_paths[j])]],
           1, Len(all_paths))

\* line 64: (path, total_delay) of each
PathAndDelay(ps) == [j \in 1..Len(ps) |-> [path |-> ps[j].path, delay |-> ps[j].delay]]

\* lines 39-64: the paths sorted by the key, the first max_paths returned
get_alternative_paths(links, all_paths, k) ==
    PathAndDelay(FirstPaths(SortByScore(links, ScoredPaths(links, all_paths)), k))

\* a node that no topology has
Stranger == "Z"

\* two routes from S to T of the same delay over the same kinds of link, the
\* deep-space link being the last hop of one and the middle hop of the other
TieScore ==
    << Link("S", "a", 10, "km"), Link("a", "b", 10, "km"), Link("b", "T", 10, "M km"),
       Link("S", "c", 10, "km"), Link("c", "e", 10, "M km"), Link("e", "T", 10, "km") >>

RoutingTopologies == Topologies \cup {TieScore}

RoutingInit ==
    /\ topology \in RoutingTopologies
    /\ source \in GraphNodes(topology) \cup {Stranger}
    /\ destination \in GraphNodes(topology) \cup {Stranger}
    /\ error_rate = 0 /\ disruption_rate = 0
    /\ pc = "routing"
    /\ NoRun
    /\ node_buffer = << >>
    /\ max_buffer_size = DefaultBufferSize
    /\ node_log = << >>
    /\ max_paths \in 0..MaxPaths
    /\ alt_paths = << >>

\* lines 32-71: a node missing from the graph makes networkx raise and the
\* handler of line 69 returns []; for source = destination networkx before
\* 3.2 yields no path and later versions yield the single-node path
GetAlternativePaths ==
    /\ pc = "routing"
    /\ \E all_paths \in
            (IF {source, destination} \subseteq GraphNodes(topology)
             THEN IF source = destination
                  THEN {<< >>, << <<source>> >>}
                  ELSE {all_simple_paths(topology, source, destination)}
             ELSE {<< >>}) :
          alt_paths' = get_alternative_paths(topology, all_paths, max_paths)
    /\ pc' = "routed"
    /\ UNCHANGED <<inputs, paths_with_delays, pidx, i, disrupted_links, counters,
                   successful_delivery, retry_count, buffer, delivered_idx,
                   recovery_attempt_events, run, node_buffer, max_buffer_size,
                   node_log, max_paths>>

RoutingNext == GetAlternativePaths

RoutingSpec == RoutingInit /\ [][RoutingNext]_vars

----------------------------------------------------------------------------
(* The record the run returns, lines 264-281 *)

Returned == pc = "done"

final_path == paths_with_delays[pidx].path

\* len(bundles) for every key of self.buffer
buffer_states == [n \in DOMAIN buffer |-> Len(buffer[n])]

\* line 274: the longest list of self.buffer, 0 without a key
max_stored_bundles ==
    IF DOMAIN buffer = {} THEN 0
    ELSE CHOOSE m \in {Len(buffer[n]) : n \in DOMAIN buffer} :
             \A n \in DOMAIN buffer : Len(buffer[n]) <= m

\* paths_with_delays.index((current_path, estimated_delay)) + 1
paths_attempted ==
    CHOOSE k \in 1..Len(paths_with_delays) :
        /\ paths_with_delays[k] = paths_with_delays[pidx]
        /\ \A j \in 1..(k - 1) : paths_with_delays[j] # paths_with_delays[pidx]

final_stats ==
    [total_delay |-> total_delay,
     total_retransmissions |-> retransmissions,
     final_path |-> final_path,
     disruptions |-> disruptions_handled,
     disrupted_links |-> disrupted_links,
     stored_bundles |-> stored_bundles_count,
     max_stored_bundles |-> max_stored_bundles,
     paths_attempted |-> paths_attempted,
     total_available_paths |-> Len(paths_with_delays),
     buffer_states |-> buffer_states,
     total_storage_events |-> stored_bundles_count,
     recovery_attempts |-> retransmissions,
     successful_recoveries |-> recoveries]

----------------------------------------------------------------------------
(* Scheduling: the run is one sequential program, so it always takes its   *)
(* next step; the draws are fair in that a hop check, a recovery draw and  *)
(* a link-commit draw that are taken again and again eventually come out   *)
(* clean.                                                                  *)

Fairness ==
    /\ WF_vars(Next)
    /\ SF_vars(HopCheckClean)
    /\ SF_vars(RecoverySuccess)
    /\ SF_vars(Commit)

FairSpec == Spec /\ Fairness

----------------------------------------------------------------------------
(* Vocabulary of the claims *)

Candidates == {paths_with_delays[k].path : k \in 1..Len(paths_with_delays)}

\* a route of at least one link was found
RouteExists == \E p \in Candidates : Len(p) > 1

\* the destination can be reached from the source: it is the source, or a
\* route leads to it
Reachable == source = destination \/ RouteExists

\* no draw is certain to come out disrupted
NotPermanent ==
    /\ error_rate < 100
    /\ disruption_rate < 100
    /\ \A l \in Range(topology) : error_rate * distance_factor(l) < 1000

\* the reliability of the claims, as the exact fraction
\* ReliabilityNum / ReliabilityDen: 0.7 per deep-space link, 0.9 per other
RECURSIVE ReliabilityNum(_, _)
ReliabilityNum(links, path) ==
    IF Len(path) < 2 THEN 1
    ELSE (IF IsDeepSpace(Edge(links, path[1], path[2])) THEN 7 ELSE 9)
         * ReliabilityNum(links, Tail(path))

RECURSIVE ReliabilityDen(_, _)
ReliabilityDen(links, path) ==
    IF Len(path) < 2 THEN 1 ELSE 10 * ReliabilityDen(links, Tail(path))

\* the score of p, delay times the inverse of the reliability, is lower
\* than the score of q
LowerScore(links, p, q) ==
    PathDelay(links, p) * ReliabilityDen(links, p) * ReliabilityNum(links, q)
        < PathDelay(links, q) * ReliabilityDen(links, q) * ReliabilityNum(links, p)

LowestScored(p) ==
    /\ p \in Candidates
    /\ \A q \in Candidates : ~LowerScore(topology, q, p)

NoRepeatedNode(p) == \A j, k \in 1..Len(p) : p[j] = p[k] => j = k

OnChainAtoC == topology = Chain /\ source = "A" /\ destination = "C"

TwoDisjointRoutes == topology = Diamond /\ source = "A" /\ destination = "C"

\* the number of bundles a buffer of max_buffer_size bytes takes
Capacity(size) == (size + BundleSlot - 1) \div BundleSlot

\* the copies of bundle b in a list
Copies(list, b) == Cardinality({k \in 1..Len(list) : list[k] = b})

----------------------------------------------------------------------------
(* The claims *)

\* C1: with error_rate = 0 and disruption_rate = 0 and a route, the returned
\* record reports the lowest-scored candidate as final path and no
\* retransmission.  The code sorts the candidates by delay alone and reports
\* the candidate bound by the for loop after the delivery.
C1_LowestScoredPathReported ==
    (Returned /\ error_rate = 0 /\ disruption_rate = 0 /\ RouteExists)
        => (LowestScored(final_path) /\ retransmissions = 0)

\* C2: on A-B-C, once three recovery attempts have failed on link B-C with
\* no recovery, the run has stopped without delivery, with 3
\* retransmissions and at least one disruption counted.  The code goes back
\* to the candidate list instead.
C2_StopsAfterThreeFailedRecoveries ==
    (OnChainAtoC /\ i = 1 /\ retry_count = 3 /\ recoveries = 0 /\ pc # "recover")
        => (Returned /\ ~successful_delivery /\ retransmissions = 3
            /\ disruptions_handled >= 1)

\* C3: when the destination can be reached from the source and no draw is
\* certain to be disrupted, every fair run eventually returns its record with
\* the bundle delivered.  A run that is followed no further is not held
\* against the claim.  With source = destination the code never returns.
C3_EventuallyDelivered ==
    (pc = "while" /\ Reachable /\ NotPermanent)
        ~> ((Returned /\ successful_delivery) \/ ~WithinBounds)

\* C4: with source = destination the run returns at the first test of the
\* while loop, with total_delay = 0, no disruption check and no
\* retransmission.  The code enters the for loop again and again.
C4_SourceIsDestinationReturns ==
    [][(pc = "while" /\ source = destination)
          => (pc' = "done" /\ total_delay' = 0 /\ disruptions_handled' = 0
              /\ retransmissions' = 0)]_vars

\* C5: with an empty candidate list the run stops (reporting failure) at
\* the test of the while loop instead of searching on.  The code enters the
\* for loop again and again.
C5_NoPathTerminates ==
    [][(pc = "while" /\ paths_with_delays = << >> /\ source # destination)
          => (pc' = "done" /\ ~successful_delivery')]_vars

\* C6: in every returned record final_path starts at the source, ends at
\* the destination and has no repeated node.
C6_FinalPathIsSimpleRoute ==
    Returned => /\ final_path[1] = source
                /\ final_path[Len(final_path)] = destination
                /\ NoRepeatedNode(final_path)

C6_Witness ==
    /\ Returned /\ Len(paths_with_delays) = 2
    /\ disruptions_handled >= 2 /\ retransmissions >= 3 /\ recoveries >= 1
    /\ delivered_idx = 2

\* C7: in every returned record total_delay is the sum of the link delays
\* of the path on which the bundle was delivered.  The code keeps the delays
\* of the hops of abandoned attempts.
C7_TotalDelayIsDeliveredPathDelay ==
    Returned => total_delay = paths_with_delays[delivered_idx].delay

\* C8: with two disjoint routes, a disruption found on the first
\* hop of the first candidate switches to the second candidate at once, with
\* no recovery attempt.
C8_ImmediateReroute ==
    [][(TwoDisjointRoutes /\ pc = "check" /\ pidx = 1 /\ i = 0
        /\ disruptions_handled' = disruptions_handled + 1)
          => (pidx' = 2 /\ pc' # "recover" /\ retransmissions' = retransmissions)]_vars

\* C9: the bundle is in the buffer of at most one node.  The code leaves it
\* in the buffer of the node where the retries were exhausted.
C9_BundleInAtMostOneBuffer == Cardinality(Holders(buffer, bundle)) <= 1

\* C10: when the run returns, no buffer holds the bundle.
C10_NoResidualCopyAtReturn == Returned => Holders(buffer, bundle) = {}

\* C11: once the hop-entry check is clean or the link has recovered, the hop
\* is committed: no further draw fails it.  The code draws again at line 213
\* and may send the hop back to the hop-entry check.
C11_NoSecondDisruptionCheck ==
    [][pc = "transmit"
          => (pc' = "sent" /\ total_delay' = total_delay + current_link.delay)]_vars

\* C12: the retry counter of a recovery episode never exceeds 3, and the
\* failure that takes it to 3 ends the attempt on the current path: the inner
\* loop is left and the link is not retried in this episode.
C12_RetryCounterBounded ==
    [][/\ retry_count' <= 3
       /\ (pc = "attempt" /\ retry_count' = 3) => (pc' = "for" /\ pidx' = pidx)
       /\ pc' = "recover" => retry_count' < 3]_vars

C12_Witness ==
    /\ pc = "for" /\ retry_count = 3 /\ ~successful_delivery
    /\ hop_pair \in disrupted_links

\* C13: in every returned record total_retransmissions and recovery_attempts
\* are the number of recovery attempts made.  The code counts the failed
\* attempts only (line 193 comes after the break of line 190).
C13_RetransmissionsCountAttempts ==
    Returned => /\ final_stats.total_retransmissions = recovery_attempt_events
                /\ final_stats.recovery_attempts = recovery_attempt_events

\* C14: no buffer of the simulator holds more bundles than the capacity of
\* its node.  simulate_transmission appends at line 144 without looking at
\* any capacity.
C14_BufferWithinCapacity ==
    \A n \in DOMAIN buffer : Len(buffer[n]) <= Capacity(max_buffer_size)

\* C15: a node's buffer holds each bundle at most once, whatever was
\* stored.  DTNNode.store_bundle appends without looking for the bundle.
C15_StoreIsIdempotent ==
    \A b \in NodeBundles : Copies(node_buffer, b) <= 1

\* C16 as stated: a store with spare capacity is accepted and the buffer
\* grows by one; the forward after it takes the buffer back to its size
\* before the store, and a second forward does not yield the bundle.
C16_StoreThenForward ==
    \A k \in 1..Len(node_log) :
        (node_log[k].op = "store"
         /\ node_log[k].size_before * BundleSlot < max_buffer_size)
        => /\ node_log[k].accepted
           /\ node_log[k].size_after = node_log[k].size_before + 1
           /\ (k + 1 <= Len(node_log) /\ node_log[k + 1].op = "forward")
                => node_log[k + 1].size_after = node_log[k].size_before
           /\ (k + 2 <= Len(node_log) /\ node_log[k + 1].op = "forward"
                /\ node_log[k + 2].op = "forward")
                => node_log[k + 2].bundle # node_log[k].bundle

\* C16 amended: a bundle stored with spare capacity in an empty buffer is
\* accepted and the buffer grows to one; the forward after it yields that
\* bundle and empties the buffer, and a second forward yields nothing.
C16_StoreThenForwardFromEmpty ==
    \A k \in 1..Len(node_log) :
        (node_log[k].op = "store" /\ node_log[k].size_before = 0
         /\ max_buffer_size > 0)
        => /\ node_log[k].accepted
           /\ node_log[k].size_after = 1
           /\ (k + 1 <= Len(node_log) /\ node_log[k + 1].op = "forward")
                => (node_log[k + 1].bundle = node_log[k].bundle
                    /\ node_log[k + 1].size_after = 0)
           /\ (k + 2 <= Len(node_log) /\ node_log[k + 1].op = "forward"
                /\ node_log[k + 2].op = "forward")
                => (node_log[k + 2].bundle = None /\ ~node_log[k + 2].accepted)

C16_Witness ==
    /\ Len(node_log) >= 3 /\ max_buffer_size > 0
    /\ node_log[1].op = "store" /\ node_log[1].accepted
    /\ node_log[2].op = "forward" /\ node_log[2].bundle = node_log[1].bundle
    /\ node_log[3].op = "forward" /\ node_buffer = << >>

\* u and v are the ends of a link of the topology
IsLink(links, u, v) == \E l \in Range(links) : {l.source, l.target} = {u, v}

\* the simple paths of the graph from s to t, from the definition
SimpleRoutes(links, s, t) ==
    {p \in UNION {[1..n -> GraphNodes(links)] : n \in 2..Cardinality(GraphNodes(links))} :
        /\ p[1] = s /\ p[Len(p)] = t
        /\ NoRepeatedNode(p)
        /\ \A j \in 1..(Len(p) - 1) : IsLink(links, p[j], p[j + 1])}

Returned_alt == {alt_paths[k].path : k \in 1..Len(alt_paths)}

\* C17: every pair in disrupted_links is a link of the topology.
C17_DisruptedLinksAreLinks ==
    \A p \in disrupted_links : IsLink(topology, p[1], p[2])

C17_Witness ==
    \E p \in disrupted_links : p[1] # source /\ pc = "recover"

\* C18: get_alternative_paths returns at most max_paths paths, each a simple
\* path from source to destination, in ascending order of score, and no
\* simple path left out has a lower score than a returned one.
C18_AlternativePathsBestFirst ==
    pc = "routed" =>
        /\ Len(alt_paths) <= max_paths
        /\ \A k \in 1..Len(alt_paths) :
              LET p == alt_paths[k].path
              IN  /\ p[1] = source /\ p[Len(p)] = destination
                  /\ NoRepeatedNode(p)
                  /\ \A j \in 1..(Len(p) - 1) : IsLink(topology, p[j], p[j + 1])
        /\ \A j, k \in 1..Len(alt_paths) :
              j < k => ~LowerScore(topology, alt_paths[k].path, alt_paths[j].path)
        /\ \A q \in SimpleRoutes(topology, source, destination) \ Returned_alt :
              \A p \in Returned_alt : ~LowerScore(topology, q, p)

C18_Witness ==
    /\ pc = "routed" /\ TwoDisjointRoutes /\ max_paths = 1
    /\ alt_paths = << [path |-> <<"A", "D", "C">>, delay |-> 35] >>

\* C19: the occupancy a returned record reports counts the bundle of this
\* run only.  self.buffer is made once in __init__ and still holds what
\* earlier runs left in it.
C19_OccupancyIsOfThisRun ==
    Returned =>
        /\ \A n \in DOMAIN buffer :
              final_stats.buffer_states[n] = Copies(buffer[n], bundle)
        /\ final_stats.max_stored_bundles
              \in {0} \cup {Copies(buffer[n], bundle) : n \in DOMAIN buffer}

\* C20: once the last candidate has been left without delivery the run
\* stops; no candidate is taken up a second time.  The while loop of line
\* 104 starts the for loop again at the first candidate.
C20_NoCandidateTriedTwice ==
    [][(pc = "while" /\ ~successful_delivery /\ paths_with_delays # << >>
        /\ pidx = Len(paths_with_delays))
          => (pc' = "done" /\ pidx' = pidx)]_vars

\* C21: when the engine takes up the next candidate after hops of the
\* current one were committed, the new path starts at the node the bundle
\* has reached.  The code sets i = 0 on a path that starts at the source.
C21_SwitchContinuesFromCurrentNode ==
    [][(pc = "for" /\ pc' = "check" /\ pidx >= 1 /\ i >= 1 /\ ~successful_delivery)
          => paths_with_delays[pidx'].path[1] = current_path[i + 1]]_vars

\* C22: every step that finds a hop disrupted, at the check of lines
\* 133-136 or at the draw of line 213, puts the link into disrupted_links
\* and adds one to the disruption counter.
C22_EveryDisruptionCounted ==
    [][((pc = "check" /\ pc' = "recover")
        \/ (pc = "transmit" /\ pc' = "check" /\ i' = i))
          => (hop_pair \in disrupted_links'
              /\ disruptions_handled' = disruptions_handled + 1)]_vars

\* C23: the returned record names the path whose last hop was committed,
\* and paths_attempted is the rank of that path in the candidate list.
C23_FinalPathIsDeliveredPath ==
    Returned => /\ final_stats.final_path = paths_with_delays[delivered_idx].path
                /\ final_stats.paths_attempted = delivered_idx

\* C24: no hop is committed while its link is in disrupted_links.
C24_NoCommitOnDisruptedLink ==
    [][(pc = "sent" /\ i' = i + 1) => hop_pair \notin disrupted_links]_vars

\* C25: at every point of a run the failed retries are at most three per
\* counted disruption, and neither the successful recoveries nor the
\* storage events outnumber the counted disruptions.
C25_CountersBoundedByDisruptions ==
    /\ 0 <= retransmissions
    /\ retransmissions <= 3 * disruptions_handled
    /\ recoveries <= disruptions_handled
    /\ stored_bundles_count <= disruptions_handled

C25_Witness ==
    /\ disruptions_handled >= 2
    /\ retransmissions = 3 * disruptions_handled
    /\ stored_bundles_count >= 1

====
